---- MODULE Spec2Model ----
(***************************************************************************)
(* A model of the HTTP capture service: the catch-all capture route        *)
(* (capture.ts), the multipart materializer (storage.ts), the admin API    *)
(* (admin.ts), the readiness probe (health.ts), header redaction           *)
(* (redact.ts) and the server set-up that decides which bodies reach the   *)
(* capture handler (index.ts).                                             *)
(*                                                                         *)
(* Strings the code inspects (urls, content types, the Authorization       *)
(* header) are sequences of tokens, so that startsWith / includes /        *)
(* substring are computed, not assumed.  Bodies are sequences of bytes.    *)
(* An optional value is <<>> (absent) or <<v>> (present).                  *)
(***************************************************************************)
EXTENDS Integers, Sequences, FiniteSets, TLC

(* ------------------------------ bounds -------------------------------- *)
\* inbound requests that reach the catch-all route (request ids 1..MaxReq)
MaxReq == 2
\* most headers of one request, and most characters of a header name
MaxHdr == 2
\* longest request body, in bytes
MaxLen == 2
\* most parts read from one multipart stream
MaxParts == 2
\* most DELETE /admin/requests/:id handlers between their read and their write
MaxDel == 2
\* most clock advances
MaxTicks == 2
\* largest configured MAX_BODY_BYTES
MaxCap == 2

(* ------------------------- program constants -------------------------- *)
\* admin.ts:271  parseInt(request.query.days || '30', 10)
DefaultDays == 30

VARIABLES
  redact,     \* a call of redactHeaders: REDACTED_FIELDS, the headers, the results
  del,        \* per request id: the DELETE handlers that found it and will update it
  lst,        \* the listing whose two queries are not both answered yet
  metrics,    \* the in-memory counters of health.ts
  maxBytes,   \* env.MAX_BODY_BYTES (also Fastify's bodyLimit)
  now,        \* the server clock, in days
  requests,   \* table captured_requests: the set of rows
  files,      \* table uploaded_files: the set of rows
  disk,       \* the upload directory: the set of [path, data] files
  cap,        \* per inbound catch-all request: the handler's progress
  reply       \* the response being sent; NoReply once it has left the server

vars == <<redact, del, lst, metrics, maxBytes, now, requests, files, disk, cap, reply>>

(* ------------------------------ helpers ------------------------------- *)
None == <<>>
Some(x) == <<x>>

Take(s, n) == SubSeq(s, 1, IF n < Len(s) THEN n ELSE Len(s))

RECURSIVE Flatten(_)
Flatten(ss) == IF ss = <<>> THEN <<>> ELSE Head(ss) \o Flatten(Tail(ss))

\* String.prototype.startsWith / includes, on token sequences
StartsWith(s, tok) == Len(s) > 0 /\ s[1] = tok
Includes(s, tok) == \E i \in 1..Len(s) : s[i] = tok

SeqsUpTo(S, n) == UNION {[1..k -> S] : k \in 0..n}

ReqIds == 1..MaxReq

(* ------------------------------- bodies ------------------------------- *)
\* 32: a space between JSON tokens; 65: an ASCII letter; 255: a byte that is
\* no valid UTF-8
Bytes == {32, 65, 255}

\* Decoding bytes to a JavaScript string and encoding the string again
\* (Buffer.from(str, 'utf8')): an undecodable byte has become U+FFFD, which
\* encodes as EF BF BD.
Utf8RoundTrip(wire) ==
  Flatten([i \in 1..Len(wire) |->
             IF wire[i] = 255 THEN <<239, 191, 189>> ELSE <<wire[i]>>])

\* JSON.stringify(JSON.parse(text)): the white space between tokens is gone.
JsonStringify(wire) == SelectSeq(Utf8RoundTrip(wire), LAMBDA b : b # 32)

\* request.body as the handler sees it, with the bytes that were sent:
\*   none   - no body (undefined)
\*   string - a string (the text parser decoded the bytes)
\*   buffer - a Buffer holding the bytes
\*   object - the value the JSON parser made of the bytes
\*   falsy  - such a value that is null, false, 0 or ""
NoBody == [kind |-> "none", wire |-> <<>>]

\* "[object Object]": String(request.body) of a parsed object
ObjectString == [i \in 1..15 |-> 65]

\* capture.ts:63  `else if (request.body)`: '' is falsy, an empty Buffer is not
Truthy(body) ==
  \/ body.kind \in {"buffer", "object"}
  \/ body.kind = "string" /\ body.wire # <<>>

\* capture.ts:67  typeof body === 'string' ? body : JSON.stringify(body)
JsonBodyBytes(body) ==
  IF body.kind = "string" THEN Utf8RoundTrip(body.wire)
  ELSE JsonStringify(body.wire)

\* capture.ts:83  typeof body === 'string' ? body : String(body)
TextBodyBytes(body) ==
  IF body.kind = "object" THEN ObjectString ELSE Utf8RoundTrip(body.wire)

\* capture.ts:93-95  Buffer.isBuffer(body) ? body : Buffer.from(String(body))
BinaryBodyBytes(body) ==
  CASE body.kind = "buffer" -> body.wire
    [] body.kind = "object" -> ObjectString
    [] OTHER -> Utf8RoundTrip(body.wire)

(* ---------------------------- content types --------------------------- *)
NoContentType == <<>>
CtJson == <<"application/json">>
CtText == <<"text/", "plain">>
CtBinary == <<"application/octet-stream">>
CtMultipart == <<"multipart/form-data", "; boundary=x">>

IsMultipart(ct) == ct # <<>> /\ Includes(ct, "multipart/form-data")
IsJson(ct) == ct # <<>> /\ Includes(ct, "application/json")
IsText(ct) ==
  ct # <<>> /\ (\/ StartsWith(ct, "text/")
                \/ Includes(ct, "application/xml")
                \/ Includes(ct, "application/x-www-form-urlencoded"))

\* Buffer.slice(0, MAX_BODY_BYTES) when the buffer is longer
Truncate(bytes, limit) == IF Len(bytes) > limit THEN Take(bytes, limit) ELSE bytes

\* capture.ts:42-100, the branches of a request that is not multipart:
\* (rawBodyBytes, rawBodyEncoding, truncated)
NormalizeBody(ct, body, limit) ==
  IF ~Truthy(body)
    THEN [bytes |-> None, encoding |-> None, truncated |-> FALSE]
  ELSE IF IsJson(ct)
    THEN [bytes |-> Some(Truncate(JsonBodyBytes(body), limit)),
          encoding |-> Some("utf8"),
          truncated |-> Len(JsonBodyBytes(body)) > limit]
  ELSE IF IsText(ct)
    THEN [bytes |-> Some(Truncate(TextBodyBytes(body), limit)),
          encoding |-> Some("utf8"),
          truncated |-> Len(TextBodyBytes(body)) > limit]
  ELSE [bytes |-> Some(Truncate(BinaryBodyBytes(body), limit)),
        encoding |-> Some("base64"),
        truncated |-> Len(BinaryBodyBytes(body)) > limit]

\* capture.ts:56-62  Buffer.from(JSON.stringify({hasFiles, fileCount, fields})):
\* '{', t or f, the digit of fileCount, the name and value bytes of every
\* field in the order the object holds them, '}'
SummaryBytes(upl, fields) ==
  <<123, IF Len(upl) > 0 THEN 116 ELSE 102, 48 + Len(upl)>>
    \o Flatten(fields) \o <<125>>

NormalizeMultipart(upl, fields) ==
  [bytes |-> Some(SummaryBytes(upl, fields)),
   encoding |-> Some("utf8"),
   truncated |-> FALSE]

(* -------------------------- urls and routing -------------------------- *)
\* url.split('?')[0]: the tokens before the query string
IsQueryToken(t) == t \in {"?x=1"}

RECURSIVE PathOf(_)
PathOf(url) ==
  IF url = <<>> \/ IsQueryToken(Head(url)) THEN <<>>
  ELSE <<Head(url)>> \o PathOf(Tail(url))

\* index.ts:72-75: the operational and admin routes are matched on the exact
\* path, everything else falls to the catch-all '/*'
Route(url) ==
  CASE PathOf(url) = <<"/healthz">> -> "healthz"
    [] PathOf(url) = <<"/readyz">> -> "readyz"
    [] PathOf(url) = <<"/metrics">> -> "metrics"
    [] PathOf(url) = <<"/admin", "/requests">> -> "admin"
    [] PathOf(url) = <<"/admin", "/older-than">> -> "admin"
    [] Len(PathOf(url)) = 3 /\ SubSeq(PathOf(url), 1, 2) = <<"/admin", "/requests">>
         -> "admin"
    [] OTHER -> "capture"

\* capture.ts:20
SkipsCapture(url) ==
  \/ StartsWith(url, "/admin")
  \/ StartsWith(url, "/healthz")
  \/ StartsWith(url, "/readyz")
  \/ StartsWith(url, "/metrics")

\* capture.ts:28  request.query || {}: the entries of the parsed query string
QueryOf(url) ==
  IF \E i \in 1..Len(url) : IsQueryToken(url[i])
    THEN <<[key |-> "x", value |-> "1"]>>
    ELSE <<>>

\* the column `query` is text (migration.sql:8): a mapping is stored as its
\* JSON text
JsonText(m) ==
  <<"{">> \o
  Flatten([i \in 1..Len(m) |->
             (IF i > 1 THEN <<",">> ELSE <<>>) \o <<m[i].key, ":", m[i].value>>])
  \o <<"}">>

\* JSON.parse of the text of an object: its entries
RECURSIVE ParseEntries(_)
ParseEntries(t) ==
  IF Len(t) < 3 THEN <<>>
  ELSE <<[key |-> t[1], value |-> t[3]]>> \o ParseEntries(SubSeq(t, 5, Len(t)))

JsonParse(text) == ParseEntries(SubSeq(text, 2, Len(text) - 1))

(* --------------------------- authentication --------------------------- *)
AdminToken == "s3cr3t"
NoHeader == <<>>

\* the hook without the comparison of the token
authenticateAnyBearer(authHeader) ==
  IF authHeader = NoHeader \/ ~StartsWith(authHeader, "Bearer ") THEN FALSE
  ELSE TRUE

\* admin.ts:11-32: TRUE when the hook lets the request through
authenticateAdmin(authHeader) ==
  IF authHeader = NoHeader \/ ~StartsWith(authHeader, "Bearer ") THEN FALSE
  ELSE IF Tail(authHeader) # <<AdminToken>> THEN FALSE
  ELSE TRUE

\* admin.ts:42-46: the onRequest hook; a reply sent by the hook ends the request
PassesHook(url, authHeader) ==
  StartsWith(url, "/admin") => authenticateAdmin(authHeader)

(* ------------------------- multipart materializer --------------------- *)
UploadDir == <<"uploads">>

\* ulid() of storage.ts:110: a fresh identifier for the k-th part of request id
FileUlid(id, k) == <<id, k>>

\* storage.ts:111  file.filename || `file-${fileId}`
FileName(part, fileId) ==
  IF part.filename # <<>> THEN part.filename ELSE <<"file-", fileId>>

\* one directory for the files of every request
DiskPathShared(id, filename) == UploadDir \o <<0>> \o filename

\* storage.ts:101,112  join(join(uploadDir, requestId), filename)
DiskPath(id, filename) == UploadDir \o <<id>> \o filename

\* storage.ts:118-126
FileDescriptor(id, part, fileId) ==
  [id |-> fileId,
   requestId |-> id,
   fieldName |-> part.fieldname,
   originalName |-> FileName(part, fileId),
   mimeType |-> part.mimetype,
   size |-> Len(part.data),
   diskPath |-> DiskPath(id, FileName(part, fileId))]

\* fs.writeFile(diskPath, fileBuffer): creates the file or replaces its content
WriteFile(d, path, data) ==
  {f \in d : f.path # path} \cup {[path |-> path, data |-> data]}

\* a field is set only when its name is new
SetFieldOnce(fields, name, value) ==
  IF \E i \in 1..Len(fields) : fields[i][1] = name
    THEN fields
    ELSE Append(fields, <<name, value>>)

\* fields[part.fieldname] = value: fields is the sequence of <<name, value>>
\* in the order the names were first set (the key order of the object)
SetField(fields, name, value) ==
  IF \E i \in 1..Len(fields) : fields[i][1] = name
    THEN [i \in 1..Len(fields) |->
            IF fields[i][1] = name THEN <<name, value>> ELSE fields[i]]
    ELSE Append(fields, <<name, value>>)

(* ------------------------------- metrics ------------------------------ *)
\* the methods and status classes that key byMethod and byStatus; a key that
\* was never counted stands at 0
Methods == {"GET", "POST", "DELETE"}
StatusClasses == {"2xx", "4xx", "5xx"}

\* health.ts:14-20
NoMetrics ==
  [totalCaptured |-> 0, byMethod |-> [m \in Methods |-> 0],
   byStatus |-> [c \in StatusClasses |-> 0], bytesIn |-> 0, filesStored |-> 0]

\* health.ts:25  `${Math.floor(status / 100)}xx`
StatusClass(status) ==
  CASE status \div 100 = 2 -> "2xx" [] status \div 100 = 4 -> "4xx" [] OTHER -> "5xx"

\* the counters when every capture with files adds one to filesStored
incrementMetricsOneFile(m, method, status, bytesIn, filesCount) ==
  [totalCaptured |-> m.totalCaptured + 1,
   byMethod |-> [m.byMethod EXCEPT ![method] = @ + 1],
   byStatus |-> [m.byStatus EXCEPT ![StatusClass(status)] = @ + 1],
   bytesIn |-> m.bytesIn + bytesIn,
   filesStored |-> m.filesStored + (IF filesCount > 0 THEN 1 ELSE 0)]

\* health.ts:22-29
incrementMetrics(m, method, status, bytesIn, filesCount) ==
  [totalCaptured |-> m.totalCaptured + 1,
   byMethod |-> [m.byMethod EXCEPT ![method] = @ + 1],
   byStatus |-> [m.byStatus EXCEPT ![StatusClass(status)] = @ + 1],
   bytesIn |-> m.bytesIn + bytesIn,
   filesStored |-> m.filesStored + filesCount]

(* --------------------------- capture handler -------------------------- *)
NoInput ==
  [url |-> <<>>, method |-> "", auth |-> NoHeader, ct |-> NoContentType,
   body |-> NoBody]

\* the locals of a handler that is not running: before its request has
\* arrived (idle) and after it was answered (done)
Idle == [pc |-> "idle", in |-> NoInput, parts |-> <<>>, upl |-> <<>>, fields |-> <<>>]
Finished == [Idle EXCEPT !.pc = "done"]

\* no response is on its way out: responses are looked at one at a time, so
\* a handler takes its next step once the last response has left
NoReply == [op |-> "none", status |-> 0, out |-> None]

\* The request is answered and its handler ends.  Beside the status and the
\* request_id of the response (rid), the reply records what the handler was
\* given and did: the id it generated, the request, the step that threw, the
\* parts it read and the file descriptors it made.
Respond(id, c, status, rid, failed) ==
  /\ cap' = [cap EXCEPT ![id] = Finished]
  /\ reply' = [op |-> "capture", status |-> status,
               out |-> [id |-> id, rid |-> rid, failed |-> failed, in |-> c.in,
                        parts |-> c.parts, upl |-> c.upl]]

\* index.ts:42  bodyLimit: env.MAX_BODY_BYTES - Fastify refuses a body longer
\* than the limit before the handler runs (multipart bodies are not parsed)
OverBodyLimit(in, limit) == ~IsMultipart(in.ct) /\ Len(in.body.wire) > limit

\* A request arrives at the catch-all route and runs to its first await:
\* the onRequest hook (admin.ts:42-46), the body parser with its limit and
\* the error handler (index.ts:42, 63-70), then capture.ts:14-51 / 14-103.
Receive(id, in) ==
  /\ reply = NoReply
  /\ cap[id].pc = "idle"
  /\ \A other \in ReqIds : other < id => cap[other].pc # "idle"
  /\ Route(in.url) = "capture"
  /\ LET c == [cap[id] EXCEPT !.in = in] IN
       IF ~PassesHook(in.url, in.auth) THEN Respond(id, c, 403, None, "none")
       ELSE IF OverBodyLimit(in, maxBytes) THEN Respond(id, c, 500, None, "limit")
       ELSE IF SkipsCapture(in.url) THEN Respond(id, c, 404, None, "none")
       ELSE /\ cap' = [cap EXCEPT ![id] =
                 [c EXCEPT !.pc = IF IsMultipart(in.ct) THEN "parts" ELSE "insert"]]
            /\ reply' = reply
  /\ UNCHANGED <<redact, del, lst, metrics, maxBytes, now, requests, files, disk>>

\* storage.ts:107-145: the next part of the stream is read and handled
ReadPart(id, part) ==
  /\ reply = NoReply
  /\ cap[id].pc = "parts"
  /\ Len(cap[id].parts) < MaxParts
  /\ LET c == cap[id]
         fileId == FileUlid(id, Len(c.parts) + 1)
         desc == FileDescriptor(id, part, fileId)
     IN IF part.type = "file"
        THEN /\ disk' = WriteFile(disk, desc.diskPath, part.data)
             /\ cap' = [cap EXCEPT ![id] =
                  [c EXCEPT !.parts = Append(@, part), !.upl = Append(@, desc)]]
        ELSE /\ disk' = disk
             /\ cap' = [cap EXCEPT ![id] =
                  [c EXCEPT !.parts = Append(@, part),
                            !.fields = SetField(@, part.fieldname, part.value)]]
  /\ UNCHANGED <<redact, del, lst, metrics, maxBytes, now, requests, files, reply>>

\* the failure handled by removing what the request has written so far
PartFailCleanup(id) ==
  /\ reply = NoReply
  /\ cap[id].pc = "parts"
  /\ Respond(id, cap[id], 500, Some(id), "parts")
  /\ disk' = {d \in disk : d.path[2] # id}
  /\ UNCHANGED <<redact, del, lst, metrics, maxBytes, now, requests, files>>

\* the stream read or the disk write throws: capture.ts:153-162
PartFail(id) ==
  /\ reply = NoReply
  /\ cap[id].pc = "parts"
  /\ Respond(id, cap[id], 500, Some(id), "parts")
  /\ UNCHANGED <<redact, del, lst, metrics, maxBytes, now, requests, files, disk>>

\* the stream ends: storage.ts:147, capture.ts:52-62, up to the await of :103
EndParts(id) ==
  /\ reply = NoReply
  /\ cap[id].pc = "parts"
  /\ cap' = [cap EXCEPT ![id].pc = "insert"]
  /\ UNCHANGED <<redact, del, lst, metrics, maxBytes, now, requests, files, disk, reply>>

\* capture.ts:103-118  the data of prisma.capturedRequest.create
BuildRow(id, c, limit, ts) ==
  LET n == IF IsMultipart(c.in.ct) THEN NormalizeMultipart(c.upl, c.fields)
           ELSE NormalizeBody(c.in.ct, c.in.body, limit)
  IN [id |-> id,
      ts |-> ts,
      method |-> c.in.method,
      path |-> PathOf(c.in.url),
      query |-> JsonText(QueryOf(c.in.url)),
      contentType |-> c.in.ct,
      rawBodyBytes |-> n.bytes,
      rawBodyEncoding |-> n.encoding,
      truncated |-> n.truncated,
      hasFiles |-> Len(c.upl) > 0,
      deletedAt |-> None]

\* the rows of createMany without the last descriptor
FileRowsButLast(upl) == {upl[i] : i \in 1..(Len(upl) - 1)}

\* capture.ts:136  rawBodyBytes?.length || 0
BytesIn(id, c) ==
  IF BuildRow(id, c, maxBytes, now).rawBodyBytes = None THEN 0
  ELSE Len(BuildRow(id, c, maxBytes, now).rawBodyBytes[1])

\* uploadedFiles of capture.ts:46, as the rows of createMany
FileRows(upl) == {upl[i] : i \in 1..Len(upl)}

\* capture.ts:103-118: the request row is inserted; without files the handler
\* runs on to its reply (capture.ts:121, 135-152)
InsertRequest(id) ==
  /\ reply = NoReply
  /\ cap[id].pc = "insert"
  /\ requests' = requests \cup {BuildRow(id, cap[id], maxBytes, now)}
  /\ IF Len(cap[id].upl) > 0
       THEN /\ cap' = [cap EXCEPT ![id].pc = "files"]
            /\ reply' = reply
            /\ metrics' = metrics
       ELSE /\ metrics' = incrementMetrics(metrics, cap[id].in.method, 200,
                                           BytesIn(id, cap[id]), 0)
            /\ Respond(id, cap[id], 200, Some(id), "none")
  /\ UNCHANGED <<redact, del, lst, maxBytes, now, files, disk>>

\* prisma.capturedRequest.create throws: capture.ts:153-162
InsertRequestFail(id) ==
  /\ reply = NoReply
  /\ cap[id].pc = "insert"
  /\ Respond(id, cap[id], 500, Some(id), "insert")
  /\ UNCHANGED <<redact, del, lst, metrics, maxBytes, now, requests, files, disk>>

\* capture.ts:121-152: the file rows are inserted and the request is answered
InsertFiles(id) ==
  /\ reply = NoReply
  /\ cap[id].pc = "files"
  /\ files' = files \cup FileRows(cap[id].upl)
  /\ metrics' = incrementMetrics(metrics, cap[id].in.method, 200,
                                 BytesIn(id, cap[id]), Len(cap[id].upl))
  /\ Respond(id, cap[id], 200, Some(id), "none")
  /\ UNCHANGED <<redact, del, lst, maxBytes, now, requests, disk>>

\* prisma.uploadedFile.createMany throws: capture.ts:153-162
InsertFilesFail(id) ==
  /\ reply = NoReply
  /\ cap[id].pc = "files"
  /\ Respond(id, cap[id], 500, Some(id), "files")
  /\ UNCHANGED <<redact, del, lst, metrics, maxBytes, now, requests, files, disk>>

(* -------------------------------- clock ------------------------------- *)
\* the clock advances, MaxTicks times, by the default age of the bulk delete
Tick ==
  /\ reply = NoReply
  /\ now < MaxTicks * DefaultDays
  /\ now' = now + DefaultDays
  /\ UNCHANGED <<redact, del, lst, metrics, maxBytes, requests, files, disk, cap, reply>>

(* ------------------------------ admin API ----------------------------- *)
HasRow(id) == \E r \in requests : r.id = id
RowOf(id) == CHOOSE r \in requests : r.id = id

Answer(op, status, out) ==
  reply' = [op |-> op, status |-> status, out |-> out]

\* the hook of admin.ts:42-46 has answered 403: the route handler does not run
Denied(op) ==
  /\ Answer(op, 403, None)
  /\ UNCHANGED <<redact, del, lst, metrics, maxBytes, now, requests, files, disk, cap>>

\* method.toUpperCase()
ToUpperCase(m) ==
  CASE m = "get" -> "GET" [] m = "post" -> "POST" [] OTHER -> m

\* the where clause without `deletedAt: null`
WhereWithDeleted(q) ==
  {r \in requests :
     /\ q.method # None => r.method = ToUpperCase(q.method[1])
     /\ q.pathPrefix # None =>
          /\ Len(r.path) >= Len(q.pathPrefix[1])
          /\ SubSeq(r.path, 1, Len(q.pathPrefix[1])) = q.pathPrefix[1]
     /\ q.since # None => r.ts >= q.since[1]
     /\ q.until # None => r.ts <= q.until[1]
     /\ q.hasFiles # None => r.hasFiles = (q.hasFiles[1] = "true")}

\* admin.ts:73-98: the where clause of the listing
Where(q) ==
  {r \in requests :
     /\ r.deletedAt = None
     /\ q.method # None => r.method = ToUpperCase(q.method[1])
     /\ q.pathPrefix # None =>
          /\ Len(r.path) >= Len(q.pathPrefix[1])
          /\ SubSeq(r.path, 1, Len(q.pathPrefix[1])) = q.pathPrefix[1]
     /\ q.since # None => r.ts >= q.since[1]
     /\ q.until # None => r.ts <= q.until[1]
     /\ q.hasFiles # None => r.hasFiles = (q.hasFiles[1] = "true")}

\* orderBy: { ts: 'desc' }: every order of the rows that descends by ts
OrderByTsDesc(rows) ==
  {s \in [1..Cardinality(rows) -> rows] :
     /\ \A i, j \in 1..Cardinality(rows) : i # j => s[i] # s[j]
     /\ \A i, j \in 1..Cardinality(rows) : i < j => s[i].ts >= s[j].ts}

\* take: limitNum, without the skip
PageWithoutSkip(s, offset, limit) == SubSeq(s, 1, IF limit < Len(s) THEN limit ELSE Len(s))

\* skip: offsetNum, take: limitNum
Page(s, offset, limit) ==
  SubSeq(s, offset + 1, IF offset + limit < Len(s) THEN offset + limit ELSE Len(s))

\* admin.ts:61-62  limit = '50', offset = '0'
DefaultLimit == 50
DefaultOffset == 0
LimitOf(q) == IF q.limit = None THEN DefaultLimit ELSE q.limit[1]
OffsetOf(q) == IF q.offset = None THEN DefaultOffset ELSE q.offset[1]

\* admin.ts:60-68  request.query of a listing
Query(limit, offset, method, hasFiles) ==
  [limit |-> limit, offset |-> offset, method |-> method, pathPrefix |-> None,
   since |-> None, until |-> None, hasFiles |-> hasFiles]

NoFilter == Query(None, None, None, None)

\* admin.ts:123-138  the listing's answer: the page, and pagination with
\* limit, offset, total and hasMore
ListAnswer(q, ids, total) ==
  [ids |-> ids, limit |-> LimitOf(q), offset |-> OffsetOf(q), total |-> total,
   hasMore |-> OffsetOf(q) + LimitOf(q) < total]

\* the ids of a page of s
PageIds(s, q) ==
  [i \in 1..Len(Page(s, OffsetOf(q), LimitOf(q))) |->
     Page(s, OffsetOf(q), LimitOf(q))[i].id]

\* GET /admin/requests  (admin.ts:59-139), when findMany and count of the
\* Promise.all (admin.ts:100-121) read the store with no write between them
AdminList(auth, q) ==
  /\ reply = NoReply
  /\ IF ~authenticateAdmin(auth) THEN Denied("list")
     ELSE
       /\ \E s \in OrderByTsDesc(Where(q)) :
            Answer("list", 200, ListAnswer(q, PageIds(s, q), Cardinality(Where(q))))
       /\ UNCHANGED <<redact, del, lst, metrics, maxBytes, now, requests, files, disk, cap>>

\* no listing is between its two queries
NoList == [pc |-> "none", q |-> NoFilter, ids |-> <<>>, total |-> 0]

\* GET /admin/requests with the admin token, when the two queries of the
\* Promise.all (admin.ts:100-121) are answered apart: the one answered first
AdminListFirst(q, first) ==
  /\ reply = NoReply
  /\ lst.pc = "none"
  /\ IF first = "findMany"
       THEN \E s \in OrderByTsDesc(Where(q)) :
              lst' = [pc |-> "count", q |-> q, ids |-> PageIds(s, q), total |-> 0]
       ELSE lst' = [pc |-> "findMany", q |-> q, ids |-> <<>>,
                    total |-> Cardinality(Where(q))]
  /\ UNCHANGED <<redact, del, metrics, maxBytes, now, requests, files, disk, cap, reply>>

\* the other query is answered and the handler replies (admin.ts:123-138)
AdminListSecond ==
  /\ reply = NoReply
  /\ lst.pc # "none"
  /\ IF lst.pc = "count"
       THEN Answer("list", 200, ListAnswer(lst.q, lst.ids, Cardinality(Where(lst.q))))
       ELSE \E s \in OrderByTsDesc(Where(lst.q)) :
              Answer("list", 200, ListAnswer(lst.q, PageIds(s, lst.q), lst.total))
  /\ lst' = NoList
  /\ UNCHANGED <<redact, del, metrics, maxBytes, now, requests, files, disk, cap>>

\* admin.ts:158-169: the body as it is shown
ShownBody(r) ==
  IF r.rawBodyBytes = None THEN None
  ELSE IF r.rawBodyEncoding = Some("utf8")
    THEN Some([utf8 |-> Utf8RoundTrip(r.rawBodyBytes[1])])
  ELSE Some([base64 |-> r.rawBodyBytes[1],
             encoding |-> IF r.rawBodyEncoding = None THEN "unknown"
                          ELSE r.rawBodyEncoding[1]])

\* admin.ts:174  requestRecord.query ? JSON.parse(requestRecord.query) : {}
ShownQuery(r) == IF r.query = <<>> THEN <<>> ELSE JsonParse(r.query)

\* GET /admin/requests/:id  (admin.ts:142-181)
AdminGet(auth, id) ==
  /\ reply = NoReply
  /\ IF ~authenticateAdmin(auth) THEN Answer("get", 403, None)
     ELSE IF ~HasRow(id) \/ RowOf(id).deletedAt # None
       THEN Answer("get", 404, None)
     ELSE Answer("get", 200,
                 [row |-> RowOf(id),
                  files |-> {f \in files : f.requestId = id},
                  query |-> ShownQuery(RowOf(id)),
                  body |-> ShownBody(RowOf(id))])
  /\ UNCHANGED <<redact, del, lst, metrics, maxBytes, now, requests, files, disk, cap>>

\* GET /admin/requests/:id/files  (admin.ts:184-205)
AdminFiles(auth, id) ==
  /\ reply = NoReply
  /\ IF ~authenticateAdmin(auth) THEN Answer("files", 403, None)
     ELSE IF ~HasRow(id) \/ RowOf(id).deletedAt # None
       THEN Answer("files", 404, None)
     ELSE Answer("files", 200, {f \in files : f.requestId = id})
  /\ UNCHANGED <<redact, del, lst, metrics, maxBytes, now, requests, files, disk, cap>>

\* admin.ts:211-237  what the download handler answers for fileId
Download(fileId) ==
  IF \/ ~\E f \in files : f.id = fileId
     \/ RowOf((CHOOSE f \in files : f.id = fileId).requestId).deletedAt # None
    THEN [status |-> 404, out |-> None]
  ELSE LET file == CHOOSE f \in files : f.id = fileId IN
       IF ~\E d \in disk : d.path = file.diskPath
         THEN [status |-> 404, out |-> None]
       ELSE [status |-> 200,
             out |-> (CHOOSE d \in disk : d.path = file.diskPath).data]

\* GET /admin/files/:fileId  (admin.ts:208-238)
AdminDownload(auth, fileId) ==
  /\ reply = NoReply
  /\ IF ~authenticateAdmin(auth) THEN Answer("download", 403, None)
     ELSE Answer("download", Download(fileId).status, Download(fileId).out)
  /\ UNCHANGED <<redact, del, lst, metrics, maxBytes, now, requests, files, disk, cap>>

\* data: { deletedAt: new Date() } on the rows of `ids`
SetDeletedAt(ids, t) ==
  {IF r.id \in ids THEN [r EXCEPT !.deletedAt = Some(t)] ELSE r : r \in requests}

\* the DELETE handlers that have read their row and not yet written it
RECURSIVE InFlight(_)
InFlight(n) == IF n = 0 THEN 0 ELSE del[n] + InFlight(n - 1)

\* DELETE /admin/requests/:id  (admin.ts:241-253): the handler reads the row
\* and answers 404, or goes on to its update; at most dels handlers are
\* between the two
AdminDelete(auth, id, dels) ==
  /\ reply = NoReply
  /\ IF ~authenticateAdmin(auth)
       THEN /\ Answer("delete", 403, None)
            /\ del' = del
     ELSE IF ~HasRow(id) \/ RowOf(id).deletedAt # None
       THEN /\ Answer("delete", 404, None)
            /\ del' = del
     ELSE /\ InFlight(MaxReq) < dels
          /\ del' = [del EXCEPT ![id] = @ + 1]
          /\ reply' = reply
  /\ UNCHANGED <<redact, lst, metrics, maxBytes, now, requests, files, disk, cap>>

\* admin.ts:255-265: the update of a handler that found the row, and its 200
AdminDeleteUpdate(id) ==
  /\ reply = NoReply
  /\ del[id] > 0
  /\ del' = [del EXCEPT ![id] = @ - 1]
  /\ requests' = SetDeletedAt({id}, now)
  /\ Answer("delete", 200, id)
  /\ UNCHANGED <<redact, lst, metrics, maxBytes, now, files, disk, cap>>

\* parseInt(text, 10) of a sequence of characters: the leading digits, or NaN
\* (<<>>) when there is none
Digits == {"0", "1", "2", "3", "4", "5", "6", "7", "8", "9"}
DigitValue(c) ==
  CASE c = "0" -> 0 [] c = "1" -> 1 [] c = "2" -> 2 [] c = "3" -> 3
    [] c = "4" -> 4 [] c = "5" -> 5 [] c = "6" -> 6 [] c = "7" -> 7
    [] c = "8" -> 8 [] c = "9" -> 9

RECURSIVE ParseDigits(_, _)
ParseDigits(text, acc) ==
  IF text = <<>> \/ Head(text) \notin Digits THEN acc
  ELSE ParseDigits(Tail(text), 10 * acc + DigitValue(Head(text)))

ParseInt(text) ==
  IF text = <<>> \/ Head(text) \notin Digits THEN None
  ELSE Some(ParseDigits(text, 0))

\* admin.ts:271  request.query.days || '30'
DaysText(days) == IF days = <<>> THEN <<"3", "0">> ELSE days

\* the bulk delete with `lte` in place of `lt`
OlderThanOrAt(cutoff) == {r \in requests : r.ts <= cutoff /\ r.deletedAt = None}

\* admin.ts:276-279  where: { ts: { lt: cutoffDate }, deletedAt: null }
OlderThan(cutoff) == {r \in requests : r.ts < cutoff /\ r.deletedAt = None}

\* DELETE /admin/older-than  (admin.ts:268-290); an invalid date makes the
\* query throw, which index.ts:63-70 answers with 500
AdminOlderThan(auth, days) ==
  /\ reply = NoReply
  /\ IF ~authenticateAdmin(auth) THEN Denied("older-than")
     ELSE IF ParseInt(DaysText(days)) = None
       THEN /\ Answer("older-than", 500, None)
            /\ UNCHANGED <<redact, del, lst, metrics, maxBytes, now, requests, files, disk, cap>>
     ELSE LET cutoff == now - ParseInt(DaysText(days))[1] IN
          /\ requests' = SetDeletedAt({r.id : r \in OlderThan(cutoff)}, now)
          /\ Answer("older-than", 200,
                    [deleted |-> Cardinality(OlderThan(cutoff))])
          /\ UNCHANGED <<redact, del, lst, metrics, maxBytes, now, files, disk, cap>>

(* ------------------------ operational endpoints ----------------------- *)
\* health.ts:70-79  the row GET /readyz creates; its id `test-<ms>` is the one
\* id that is no request id
TestId == 0
TestRow ==
  [id |-> TestId, ts |-> now, method |-> "TEST", path |-> <<"/test">>,
   query |-> JsonText(<<>>), contentType |-> None, rawBodyBytes |-> None, rawBodyEncoding |-> None,
   truncated |-> FALSE, hasFiles |-> FALSE, deletedAt |-> None]

\* health.ts:71-79  the table inside the transaction, after its create
ReadyzCreated == requests \cup {TestRow}

\* health.ts:80-82  the table inside the transaction, after its delete
ReadyzDeleted == {r \in ReadyzCreated : r.id # TestRow.id}

\* GET /readyz  (health.ts:65-96): the transaction commits what its delete
\* left, or it throws, is rolled back and the handler answers 503
Readyz ==
  /\ reply = NoReply
  /\ \E writable \in BOOLEAN :
       IF writable
         THEN /\ requests' = ReadyzDeleted
              /\ Answer("readyz", 200, None)
         ELSE /\ requests' = requests
              /\ Answer("readyz", 503, None)
  /\ UNCHANGED <<redact, del, lst, metrics, maxBytes, now, files, disk, cap>>

\* GET /metrics  (health.ts:99-136): the counters as they stand
Metrics ==
  /\ reply = NoReply
  /\ Answer("metrics", 200, metrics)
  /\ UNCHANGED <<redact, del, lst, metrics, maxBytes, now, requests, files, disk, cap>>

(* -------------------------- header redaction -------------------------- *)
\* header names and the entries of REDACTED_FIELDS are sequences of
\* characters: a lower-case letter, its upper-case form, and a space
LowerChar(c) == IF c = "A" THEN "a" ELSE c
toLowerCase(s) == [i \in 1..Len(s) |-> LowerChar(s[i])]

\* String.prototype.trim
RECURSIVE trimStart(_)
trimStart(s) == IF s # <<>> /\ Head(s) = " " THEN trimStart(Tail(s)) ELSE s
RECURSIVE trimEnd(_)
trimEnd(s) ==
  IF s # <<>> /\ s[Len(s)] = " " THEN trimEnd(SubSeq(s, 1, Len(s) - 1)) ELSE s
trim(s) == trimEnd(trimStart(s))

\* env.ts:34-37  split(',').map((f) => f.trim().toLowerCase()).filter(Boolean);
\* fields is the value of REDACTED_FIELDS already split at its commas
getRedactedFields(fields) ==
  SelectSeq([i \in 1..Len(fields) |-> toLowerCase(trim(fields[i]))],
            LAMBDA f : f # <<>>)

Redacted == "[REDACTED]"

\* redact.ts:13-18, with the key compared as it is written
redactEntryCaseSensitive(entry, redactedFields) ==
  IF Includes(redactedFields, entry.key)
    THEN [key |-> entry.key, value |-> Redacted]
    ELSE entry

\* redact.ts:13-18  one entry of the result
redactEntry(entry, redactedFields) ==
  IF Includes(redactedFields, toLowerCase(entry.key))
    THEN [key |-> entry.key, value |-> Redacted]
    ELSE entry

\* redact.ts:6-22  headers is the sequence of the object's entries
redactHeaders(headers, fields) ==
  [i \in 1..Len(headers) |-> redactEntry(headers[i], getRedactedFields(fields))]

NoCall == [fields |-> <<>>, headers |-> <<>>, once |-> None, twice |-> None]

\* capture.ts:28  redactHeaders(request.headers)
RedactOnce ==
  /\ redact.once = None
  /\ redact' = [redact EXCEPT !.once = Some(redactHeaders(redact.headers, redact.fields))]
  /\ UNCHANGED <<del, lst, metrics, maxBytes, now, requests, files, disk, cap, reply>>

\* redactHeaders applied to its own result
RedactTwice ==
  /\ redact.once # None
  /\ redact.twice = None
  /\ redact' = [redact EXCEPT !.twice = Some(redactHeaders(redact.once[1], redact.fields))]
  /\ UNCHANGED <<del, lst, metrics, maxBytes, now, requests, files, disk, cap, reply>>

\* the reply has left the server
Deliver ==
  /\ reply # NoReply
  /\ reply' = NoReply
  /\ UNCHANGED <<redact, del, lst, metrics, maxBytes, now, requests, files, disk, cap>>

(* ------------------------------- inputs ------------------------------- *)
ValidAuth == <<"Bearer ", AdminToken>>

AuthHeaders ==
  {NoHeader, ValidAuth, <<"Bearer ", "wrong">>, <<"Basic ", AdminToken>>}

Request(url, method, auth, ct, body) ==
  [url |-> url, method |-> method, auth |-> auth, ct |-> ct, body |-> body]

FilePart(filename, data) ==
  [type |-> "file", fieldname |-> 102, filename |-> filename,
   mimetype |-> "text/plain", data |-> data, value |-> 0]

FieldPart(name, value) ==
  [type |-> "field", fieldname |-> name, filename |-> <<>>,
   mimetype |-> "", data |-> <<>>, value |-> value]

JsonPost ==
  Request(<<"/hook", "?x=1">>, "POST", NoHeader, CtJson,
          [kind |-> "object", wire |-> <<65>>])

MultipartPost == Request(<<"/hook">>, "POST", NoHeader, CtMultipart, NoBody)

\* the requests and parts that fill the store while the admin API is exercised
StoreInputs == {JsonPost, MultipartPost}
StoreParts == {FilePart(<<"a.txt">>, <<65>>)}

FileIds == {FileUlid(id, k) : id \in ReqIds, k \in 1..MaxParts}

\* since and until are days of the server clock
ListQueries ==
  {NoFilter, Query(Some(1), Some(1), None, None),
   Query(None, None, Some("post"), None), Query(None, None, None, Some("true")),
   Query(Some(1), None, None, Some("1")),
   [NoFilter EXCEPT !.since = Some(DefaultDays)],
   [NoFilter EXCEPT !.until = Some(0), !.pathPrefix = Some(<<"/hook">>)],
   [NoFilter EXCEPT !.pathPrefix = Some(<<"/other">>)]}

DaysInputs == {<<>>, <<"0">>, <<"3", "0">>, <<"x">>}

(* ---------------------------- specification --------------------------- *)
Init ==
  /\ redact = NoCall
  /\ del = [id \in ReqIds |-> 0]
  /\ lst = NoList
  /\ metrics = NoMetrics
  /\ maxBytes = MaxCap
  /\ now = 0
  /\ requests = {}
  /\ files = {}
  /\ disk = {}
  /\ cap = [id \in ReqIds |-> Idle]
  /\ reply = NoReply

\* the steps of the capture route, for requests drawn from Inputs whose
\* multipart streams deliver parts drawn from PartSet
Capture(Ids, Inputs, PartSet) ==
  \/ \E id \in Ids, in \in Inputs : Receive(id, in)
  \/ \E id \in Ids, part \in PartSet : ReadPart(id, part)
  \/ \E id \in Ids : PartFail(id)
  \/ \E id \in Ids : EndParts(id)
  \/ \E id \in Ids : InsertRequest(id)
  \/ \E id \in Ids : InsertRequestFail(id)
  \/ \E id \in Ids : InsertFiles(id)
  \/ \E id \in Ids : InsertFilesFail(id)

\* the admin API called with the Authorization headers Auths, with at most
\* Dels DELETE handlers between their read and their write
Admin(Dels, Auths) ==
  \/ \E auth \in Auths, q \in ListQueries : AdminList(auth, q)
  \/ \E auth \in Auths, id \in ReqIds : AdminGet(auth, id)
  \/ \E auth \in Auths, id \in ReqIds : AdminFiles(auth, id)
  \/ \E auth \in Auths, fileId \in FileIds : AdminDownload(auth, fileId)
  \/ \E auth \in Auths, id \in ReqIds : AdminDelete(auth, id, Dels)
  \/ \E id \in ReqIds : AdminDeleteUpdate(id)
  \/ \E auth \in Auths, days \in DaysInputs : AdminOlderThan(auth, days)

Next ==
  \/ Capture(ReqIds, StoreInputs, StoreParts)
  \/ Admin(1, {NoHeader, ValidAuth})
  \/ Readyz
  \/ Tick
  \/ Deliver

Spec == Init /\ [][Next]_vars

(* ------------------ one request, every kind of input ------------------ *)
Wires == SeqsUpTo(Bytes, MaxLen)

\* what request.body is for a content type: the JSON parser hands over the
\* parsed value of a text that holds at least one token, the text parser a
\* string, and a body of any other type arrives as a Buffer
BodiesOf(ct) ==
  IF IsJson(ct)
    THEN {NoBody} \cup
         {[kind |-> k, wire |-> w] :
            k \in {"object", "falsy"}, w \in {v \in Wires : Includes(v, 65)}}
  ELSE IF IsText(ct)
    THEN {NoBody} \cup {[kind |-> "string", wire |-> w] : w \in Wires}
  ELSE {NoBody} \cup {[kind |-> "buffer", wire |-> w] : w \in Wires}

BodyContentTypes == {NoContentType, CtJson, CtText, CtBinary}

BodyInputs ==
  UNION {{Request(<<"/hook">>, "POST", NoHeader, ct, body) : body \in BodiesOf(ct)} :
           ct \in BodyContentTypes}

RouteUrls ==
  {<<"/hook">>, <<"/hook", "?x=1">>, <<"/healthz", "x">>, <<"/readyz", "x">>,
   <<"/metrics", "x">>, <<"/admin", "x">>, <<"/admin", "/", "x">>}

RouteInputs ==
  {Request(url, method, auth, NoContentType, NoBody) :
     url \in RouteUrls, method \in {"GET", "POST", "DELETE"},
     auth \in {NoHeader, ValidAuth}}

AllParts ==
  {FilePart(<<"a.txt">>, <<65>>), FilePart(<<"a.txt">>, <<65, 65>>),
   FilePart(<<>>, <<65>>), FieldPart(110, 120), FieldPart(110, 121)}

\* index.ts:42 hands MAX_BODY_BYTES to Fastify as its bodyLimit, which has to
\* be a positive integer for the server to start
InitCapture ==
  /\ redact = NoCall
  /\ del = [id \in ReqIds |-> 0]
  /\ lst = NoList
  /\ metrics = NoMetrics
  /\ maxBytes \in 1..MaxCap
  /\ now = 0
  /\ requests = {}
  /\ files = {}
  /\ disk = {}
  /\ cap = [id \in ReqIds |-> Idle]
  /\ reply = NoReply

NextCapture ==
  \/ Capture({1}, BodyInputs \cup RouteInputs \cup {MultipartPost}, AllParts)
  \/ Deliver

SpecCapture == InitCapture /\ [][NextCapture]_vars

(* ------------- one stored request, every Authorization header --------- *)
NextAuth ==
  \/ Capture({1}, StoreInputs, StoreParts)
  \/ Admin(1, AuthHeaders)
  \/ Tick
  \/ Deliver

SpecAuth == Init /\ [][NextAuth]_vars

(* ------------------- DELETE handlers that run together ----------------- *)
NextDelete ==
  \/ \E id \in ReqIds : Receive(id, JsonPost)
  \/ \E id \in ReqIds : InsertRequest(id)
  \/ \E id \in ReqIds : InsertRequestFail(id)
  \/ \E id \in ReqIds : AdminDelete(ValidAuth, id, MaxDel)
  \/ \E id \in ReqIds : AdminDeleteUpdate(id)
  \/ \E days \in DaysInputs : AdminOlderThan(ValidAuth, days)
  \/ Tick
  \/ Deliver

SpecDelete == Init /\ [][NextDelete]_vars

(* ------------- listings whose two queries are answered apart ---------- *)
NextList ==
  \/ \E id \in ReqIds : Receive(id, JsonPost)
  \/ \E id \in ReqIds : InsertRequest(id)
  \/ \E id \in ReqIds : InsertRequestFail(id)
  \/ \E id \in ReqIds : AdminDelete(ValidAuth, id, 1)
  \/ \E id \in ReqIds : AdminDeleteUpdate(id)
  \/ \E q \in ListQueries : AdminList(ValidAuth, q)
  \/ \E q \in ListQueries, first \in {"findMany", "count"} : AdminListFirst(q, first)
  \/ AdminListSecond
  \/ Deliver

SpecList == Init /\ [][NextList]_vars

(* ------------------ captures of several methods, counted --------------- *)
GetHook == Request(<<"/hook">>, "GET", NoHeader, NoContentType, NoBody)
GetSkipped == Request(<<"/healthz", "x">>, "GET", NoHeader, NoContentType, NoBody)

NextMetrics ==
  \/ Capture(ReqIds, StoreInputs \cup {GetHook, GetSkipped}, StoreParts)
  \/ Admin(1, {ValidAuth})
  \/ Readyz
  \/ Metrics
  \/ Deliver

SpecMetrics == Init /\ [][NextMetrics]_vars

(* ------------------- redactHeaders on every input --------------------- *)
HeaderNames == SeqsUpTo({"a", "A"}, MaxHdr) \ {<<>>}
HeaderValues == {"v", Redacted}

\* the entries of an object: no key occurs twice
HeaderInputs ==
  {h \in SeqsUpTo([key : HeaderNames, value : HeaderValues], MaxHdr) :
     \A i, j \in 1..Len(h) : h[i].key = h[j].key => i = j}

\* values of REDACTED_FIELDS, split at the commas
FieldsInputs ==
  {<<>>, <<<<>>>>, <<<<"a">>>>, <<<<"A">>>>, <<<<" ", "a", " ">>>>,
   <<<<"a", "A">>>>, <<<<" ">>, <<"A", "a">>>>, <<<<"a">>, <<"a", "a">>>>}

InitRedact ==
  /\ redact \in [fields : FieldsInputs, headers : HeaderInputs,
                 once : {None}, twice : {None}]
  /\ del = [id \in ReqIds |-> 0]
  /\ lst = NoList
  /\ metrics = NoMetrics
  /\ maxBytes = MaxCap
  /\ now = 0
  /\ requests = {}
  /\ files = {}
  /\ disk = {}
  /\ cap = [id \in ReqIds |-> Idle]
  /\ reply = NoReply

NextRedact ==
  \/ RedactOnce
  \/ RedactTwice

SpecRedact == InitRedact /\ [][NextRedact]_vars

(* ======================================================================= *)
(*                               the claims                                *)
(* ======================================================================= *)
FileRowsOf(id) == {f \in files : f.requestId = id}
SoftDeleted(id) == \E r \in requests : r.id = id /\ r.deletedAt # None
StoredBytes(r) == IF r.rawBodyBytes = None THEN <<>> ELSE r.rawBodyBytes[1]
Answered == reply.op = "capture"
FilePartsOf(parts) == SelectSeq(parts, LAMBDA p : p.type = "file")

\* C1: in every reachable state of the store, also between the steps of a
\* capture and after a failed one, a request row has hasFiles = true if and
\* only if at least one file row references it.
C1_HasFilesIffFileRows ==
  \A r \in requests : r.hasFiles <=> FileRowsOf(r.id) # {}

\* C2: while a multipart request is materialized, any two of its file parts
\* have distinct generated ids and distinct disk paths, and the file at the
\* path of every descriptor still holds the bytes of the part it was made for.
C2_FilePartsNeverCollide ==
  \A id \in ReqIds :
    LET upl == cap[id].upl
        sent == FilePartsOf(cap[id].parts)
    IN /\ \A i, j \in 1..Len(upl) :
            i # j => upl[i].id # upl[j].id /\ upl[i].diskPath # upl[j].diskPath
       /\ \A i \in 1..Len(upl) :
            [path |-> upl[i].diskPath, data |-> sent[i].data] \in disk

\* C3: when a step of a capture has thrown (materializing the multipart body,
\* inserting the request row, inserting the file rows), the request is
\* answered 500 with the request id generated at receipt, and the store holds
\* no request row and no file row with that id.
C3_FailedCaptureLeavesNoRows ==
  Answered /\ reply.out.failed \in {"parts", "insert", "files"} =>
    /\ reply.status = 500
    /\ reply.out.rid = Some(reply.out.id)
    /\ ~HasRow(reply.out.id)
    /\ FileRowsOf(reply.out.id) = {}

\* the ids a listing returned
Listed(r) == {r.out.ids[i] : i \in 1..Len(r.out.ids)}

\* C4: once a request is soft-deleted (by id or by the bulk delete) it stays
\* soft-deleted and its request row and file rows stay in the store; every
\* later listing omits it, and GET /admin/requests/:id, its /files and
\* GET /admin/files/:fileId for each of its files answer 404.
C4_SoftDeletedIsHidden ==
  [][\A id \in ReqIds : SoftDeleted(id) =>
       /\ SoftDeleted(id)'
       /\ FileRowsOf(id) \subseteq files'
       /\ \A q \in ListQueries :
            AdminList(ValidAuth, q) => reply'.status = 200 /\ id \notin Listed(reply')
       /\ AdminGet(ValidAuth, id) => reply'.status = 404
       /\ AdminFiles(ValidAuth, id) => reply'.status = 404
       /\ \A f \in FileRowsOf(id) :
            AdminDownload(ValidAuth, f.id) => reply'.status = 404]_vars

\* a listing was answered while one request is soft-deleted and another,
\* which it shows, is not
C4_Witness ==
  /\ reply.op = "list" /\ reply.status = 200
  /\ \E r \in requests : r.deletedAt # None /\ r.hasFiles /\ FileRowsOf(r.id) # {}
  /\ \E r \in requests : r.deletedAt = None /\ r.id \in Listed(reply)

\* the number a days parameter stands for; 30 when it is not given
DaysMeant(days) ==
  CASE days = <<>> -> 30
    [] days = <<"0">> -> 0
    [] days = <<"3", "0">> -> 30

\* C5: DELETE /admin/older-than?days=N sets deletedAt on exactly the requests
\* that are not soft-deleted and whose timestamp is strictly older than now
\* minus N days (N defaults to 30), reports their number as `deleted`, and
\* leaves no row that a second call with the same cutoff would soft-delete.
C5_OlderThanExact ==
  [][\A days \in {<<>>, <<"0">>, <<"3", "0">>} :
       AdminOlderThan(ValidAuth, days) =>
         LET cutoff == now - DaysMeant(days)
             old == {r \in requests : r.deletedAt = None /\ r.ts < cutoff}
         IN /\ reply'.status = 200
            /\ reply'.out.deleted = Cardinality(old)
            /\ requests' = (requests \ old)
                 \cup {[r EXCEPT !.deletedAt = Some(now)] : r \in old}
            /\ ~\E r \in requests' : r.deletedAt = None /\ r.ts < cutoff]_vars

\* a bulk delete soft-deleted some request and spared another
C5_Witness ==
  /\ reply.op = "older-than" /\ reply.status = 200 /\ reply.out.deleted > 0
  /\ \E r \in requests : r.deletedAt = Some(now)
  /\ \E r \in requests : r.deletedAt = None

\* some admin endpoint handles a request with this Authorization header
AdminRequest(auth) ==
  \/ \E q \in ListQueries : AdminList(auth, q)
  \/ \E id \in ReqIds : AdminGet(auth, id)
  \/ \E id \in ReqIds : AdminFiles(auth, id)
  \/ \E fileId \in FileIds : AdminDownload(auth, fileId)
  \/ \E id \in ReqIds : AdminDelete(auth, id, MaxDel)
  \/ \E days \in DaysInputs : AdminOlderThan(auth, days)

Reserved(url) ==
  \/ /\ Len(PathOf(url)) >= 2
     /\ PathOf(url)[1] = "/admin"
     /\ PathOf(url)[2] \in {"/", "/requests", "/older-than", "/files"}
  \/ PathOf(url) \in {<<"/admin">>, <<"/healthz">>, <<"/readyz">>, <<"/metrics">>}

\* C7: a request with any method to any path other than the paths under
\* /admin/, /healthz, /readyz and /metrics is captured: when no step fails it
\* is answered 200 and its CapturedRequest row is in the store.
C7_EveryOtherPathIsCaptured ==
  Answered /\ ~Reserved(reply.out.in.url) /\ reply.out.failed = "none" =>
    /\ reply.status = 200
    /\ Cardinality({r \in requests : r.id = reply.out.id}) = 1

\* the body of the answered request as it was sent
SentBody == reply.out.in.body.wire

\* C8: a request that is not multipart and whose body B is longer than
\* maxBytes leaves a record whose body is the first maxBytes bytes of B, with
\* truncated = true, in base64 when the content type is binary or unknown.
C8_LongBodyStoredTruncated ==
  /\ Answered
  /\ ~IsMultipart(reply.out.in.ct)
  /\ Len(SentBody) > maxBytes
  /\ reply.out.failed # "insert"
  => /\ HasRow(reply.out.id)
     /\ StoredBytes(RowOf(reply.out.id)) = Take(SentBody, maxBytes)
     /\ RowOf(reply.out.id).truncated
     /\ ~IsJson(reply.out.in.ct) /\ ~IsText(reply.out.in.ct)
          => RowOf(reply.out.id).rawBodyEncoding = Some("base64")

\* C9: a request that is not multipart and whose body B has at most maxBytes
\* bytes is stored with truncated = false and bytes equal to B; truncated is
\* true only when the stored bytes are shorter than the body.
C9_ShortBodyStoredAsSent ==
  /\ Answered
  /\ reply.status = 200
  /\ ~IsMultipart(reply.out.in.ct)
  => LET r == RowOf(reply.out.id) IN
     /\ Len(SentBody) <= maxBytes => ~r.truncated /\ StoredBytes(r) = SentBody
     /\ r.truncated => Len(StoredBytes(r)) < Len(SentBody)

InDenyList(key) ==
  \E i \in 1..Len(getRedactedFields(redact.fields)) :
    getRedactedFields(redact.fields)[i] =
      [k \in 1..Len(key) |-> IF key[k] = "A" THEN "a" ELSE key[k]]

C11_RedactHeaders ==
  /\ redact.once # None =>
       /\ Len(redact.once[1]) = Len(redact.headers)
       /\ \A i \in 1..Len(redact.headers) :
            /\ redact.once[1][i].key = redact.headers[i].key
            /\ redact.once[1][i].value =
                 IF InDenyList(redact.headers[i].key)
                   THEN Redacted ELSE redact.headers[i].value
  /\ redact.twice # None => redact.twice = redact.once

C11_Witness ==
  /\ redact.twice # None
  /\ \E i, j \in 1..Len(redact.headers) :
       /\ redact.headers[i].key # toLowerCase(redact.headers[i].key)
       /\ redact.headers[i].value # Redacted
       /\ redact.once[1][i].value = Redacted
       /\ redact.once[1][j].value = "v"

\* C12: over any sequence of capture, admin and operational requests a
\* captured_requests row is created at most once per inbound request (a
\* capture that has answered creates none), an existing row changes in no
\* field but deletedAt, and no operation deletes a row: not one of the table
\* and not one it has created itself.
SameButDeletedAt(r, r2) == [r EXCEPT !.deletedAt = None] = [r2 EXCEPT !.deletedAt = None]

C12_RowsCreatedOnceNeverDeleted ==
  [][/\ \A r \in requests : \E r2 \in requests' : SameButDeletedAt(r, r2)
     /\ \A r2 \in requests' :
          Cardinality({r3 \in requests' : r3.id = r2.id}) = 1
     /\ \A id \in ReqIds :
          cap[id].pc = "done" => (HasRow(id)' <=> HasRow(id))
     /\ Readyz /\ reply'.status = 200 =>
          \A r \in ReadyzCreated : \E r2 \in requests' : SameButDeletedAt(r, r2)
    ]_vars

\* C13: for every file row persisted by a successful multipart capture, while
\* the owning request is not soft-deleted the download of the file answers
\* 200 with exactly the bytes of the part that produced the row, as many as
\* the row's size says; it answers 404 when the owning request is
\* soft-deleted or the file is missing on disk.
C13_DownloadReturnsThePart ==
  /\ (Answered /\ reply.status = 200) =>
       \A i \in 1..Len(reply.out.upl) :
         (reply.out.upl[i] \in files /\ ~SoftDeleted(reply.out.id)) =>
           /\ Download(reply.out.upl[i].id).status = 200
           /\ Download(reply.out.upl[i].id).out
                = FilePartsOf(reply.out.parts)[i].data
           /\ Len(Download(reply.out.upl[i].id).out) = reply.out.upl[i].size
  /\ \A f \in files :
       (SoftDeleted(f.requestId) \/ ~\E d \in disk : d.path = f.diskPath) =>
         Download(f.id).status = 404

\* C14: a captured request with a JSON or text body of at most maxBytes bytes
\* (a body that is UTF-8 text and not empty) round-trips through the store:
\* unless the database fails, the capture answers 200 with a request id, and
\* GET /admin/requests/<id> returns the body as the string that was sent and
\* the query as the mapping that was sent; a body stored with any other
\* encoding is returned as a {base64, encoding} pair.
C14_BodyAndQueryRoundTrip ==
  /\ (/\ Answered
      /\ reply.out.failed # "insert"
      /\ IsJson(reply.out.in.ct) \/ IsText(reply.out.in.ct)
      /\ SentBody # <<>>
      /\ ~Includes(SentBody, 255)
      /\ Len(SentBody) <= maxBytes)
     => /\ reply.status = 200
        /\ reply.out.rid = Some(reply.out.id)
        /\ ShownBody(RowOf(reply.out.id)) = Some([utf8 |-> SentBody])
        /\ ShownQuery(RowOf(reply.out.id)) =
             IF reply.out.in.url = <<"/hook", "?x=1">>
               THEN <<[key |-> "x", value |-> "1"]>> ELSE <<>>
  /\ \A r \in requests :
       (r.rawBodyBytes # None /\ r.rawBodyEncoding # Some("utf8")) =>
         /\ DOMAIN ShownBody(r)[1] = {"base64", "encoding"}
         /\ ShownBody(r)[1].base64 = r.rawBodyBytes[1]

\* C15: GET /admin/requests returns only non-deleted requests that match every
\* given filter (method after upper-casing, path prefix, since <= ts <= until,
\* hasFiles flag), by timestamp descending, skipping offset rows and returning
\* at most limit rows (50 and 0 when absent); total is the number of all
\* matching non-deleted rows and hasMore is true exactly when
\* offset + limit < total.
Matching(q) ==
  {r \in requests :
     /\ r.deletedAt = None
     /\ q.method # None =>
          r.method = (IF q.method[1] = "post" THEN "POST" ELSE q.method[1])
     /\ q.pathPrefix # None =>
          \E k \in 0..Len(r.path) : SubSeq(r.path, 1, k) = q.pathPrefix[1]
     /\ q.since # None => q.since[1] <= r.ts
     /\ q.until # None => r.ts <= q.until[1]
     /\ q.hasFiles # None => (r.hasFiles <=> q.hasFiles[1] = "true")}

TsOf(id) == (CHOOSE r \in requests : r.id = id).ts

C15_ListingIsTheFilteredPage ==
  [][\A q \in ListQueries :
       AdminList(ValidAuth, q) =>
         LET ids == reply'.out.ids
             total == Cardinality(Matching(q))
             limit == IF q.limit = None THEN 50 ELSE q.limit[1]
             offset == IF q.offset = None THEN 0 ELSE q.offset[1]
             rest == IF total > offset THEN total - offset ELSE 0
         IN /\ reply'.status = 200
            /\ reply'.out.total = total
            /\ reply'.out.hasMore <=> offset + limit < total
            /\ Len(ids) = (IF limit < rest THEN limit ELSE rest)
            /\ \A i \in 1..Len(ids) :
                 /\ \E r \in Matching(q) : r.id = ids[i]
                 /\ \A j \in 1..Len(ids) :
                      i < j => ids[i] # ids[j] /\ TsOf(ids[i]) >= TsOf(ids[j])
                 /\ Cardinality({r \in Matching(q) : r.ts > TsOf(ids[i])})
                      <= offset + i - 1
                 /\ Cardinality({r \in Matching(q) : r.ts >= TsOf(ids[i])})
                      >= offset + i
    ]_vars

C15_Witness ==
  /\ reply.op = "list"
  /\ reply.status = 200
  /\ reply.out.total = 2
  /\ Len(reply.out.ids) = 1
  /\ ~reply.out.hasMore

\* C16: DELETE /admin/requests/:id answers 200 and sets deletedAt only when
\* the request exists and is not already soft-deleted; a 404 changes nothing.
\* So of any number of DELETE calls for one id, one after the other or at the
\* same time, at most one is answered 200.
C16_DeleteAnswers200Once ==
  [][/\ (reply = NoReply /\ reply'.op = "delete" /\ reply'.status = 200) =>
          /\ HasRow(reply'.out)
          /\ ~SoftDeleted(reply'.out)
          /\ \E r \in requests' : r.id = reply'.out /\ r.deletedAt # None
     /\ (reply = NoReply /\ reply'.op = "delete" /\ reply'.status = 404) =>
          requests' = requests
    ]_vars

\* C17: saveMultipartFiles on a stream with N file parts and M plain fields
\* returns exactly N file descriptors, in the order the file parts arrived,
\* and a field mapping with at most M entries in which a field name that
\* occurs several times maps to the value of its last occurrence.
FieldPartsOf(parts) == SelectSeq(parts, LAMBDA p : p.type = "field")

C17_DescriptorsAndFields ==
  \A id \in ReqIds :
    (cap[id].pc \in {"insert", "files"} /\ IsMultipart(cap[id].in.ct)) =>
      LET upl == cap[id].upl
          fields == cap[id].fields
          fileParts == FilePartsOf(cap[id].parts)
          fieldParts == FieldPartsOf(cap[id].parts)
      IN /\ Len(upl) = Len(fileParts)
         /\ \A i \in 1..Len(upl) :
              /\ upl[i].fieldName = fileParts[i].fieldname
              /\ upl[i].mimeType = fileParts[i].mimetype
              /\ upl[i].size = Len(fileParts[i].data)
              /\ fileParts[i].filename # <<>> =>
                   upl[i].originalName = fileParts[i].filename
         /\ Len(fields) <= Len(fieldParts)
         /\ \A i, j \in 1..Len(fields) : fields[i][1] = fields[j][1] => i = j
         /\ \A k \in 1..Len(fieldParts) :
              \E j \in 1..Len(fields) : fields[j][1] = fieldParts[k].fieldname
         /\ \A j \in 1..Len(fields) :
              \E k \in 1..Len(fieldParts) :
                /\ fieldParts[k].fieldname = fields[j][1]
                /\ fieldParts[k].value = fields[j][2]
                /\ \A k2 \in (k + 1)..Len(fieldParts) :
                     fieldParts[k2].fieldname # fields[j][1]

\* a stream whose only field name came twice, with two values, has ended
C17_Witness ==
  /\ cap[1].pc = "insert"
  /\ Len(FieldPartsOf(cap[1].parts)) = 2
  /\ FieldPartsOf(cap[1].parts)[1].value # FieldPartsOf(cap[1].parts)[2].value
  /\ Len(cap[1].fields) = 1

\* C18: if multipart materialization fails partway (a disk write fails, or the
\* stream read fails after a disconnect), no captured_requests row and no
\* uploaded_files row is inserted for that request, then or later, and the
\* files it had written stay on disk: no later operation removes them.
C18_FailedUploadLeavesFilesOnly ==
  [][\A id \in ReqIds :
       /\ PartFail(id) =>
            /\ ~HasRow(id) /\ FileRowsOf(id) = {}
            /\ requests' = requests /\ files' = files /\ disk' = disk
       /\ cap[id].pc = "done" =>
            /\ HasRow(id)' <=> HasRow(id)
            /\ FileRowsOf(id)' = FileRowsOf(id)
            /\ \A d \in disk : d.path[2] = id => d \in disk'
    ]_vars

\* a multipart capture failed after it had written a file, and a later bulk
\* delete was answered
C18_Witness ==
  /\ reply.op = "older-than" /\ reply.status = 200
  /\ \E id \in ReqIds :
       /\ cap[id].pc = "done"
       /\ ~HasRow(id)
       /\ \E d \in disk : d.path[2] = id

\* C19: the stored body representation is chosen by the first matching rule:
\* content type contains multipart/form-data -> the UTF-8 JSON summary
\* {hasFiles, fileCount, fields} with truncated = false whatever its length;
\* no body -> no bytes, no encoding, truncated = false; content type JSON or
\* text -> encoding utf8; any other or missing content type -> base64.
C19_RepresentationByFirstRule ==
  (Answered /\ reply.status = 200) =>
    LET r == RowOf(reply.out.id)
        ct == reply.out.in.ct
    IN IF ct # <<>> /\ \E i \in 1..Len(ct) : ct[i] = "multipart/form-data"
         THEN /\ r.rawBodyEncoding = Some("utf8")
              /\ ~r.truncated
              /\ Len(StoredBytes(r)) > maxBytes
              /\ StoredBytes(r)[1] = 123
              /\ StoredBytes(r)[2] = (IF Len(reply.out.upl) > 0 THEN 116 ELSE 102)
              /\ StoredBytes(r)[3] = 48 + Len(reply.out.upl)
       ELSE IF SentBody = <<>>
         THEN r.rawBodyBytes = None /\ r.rawBodyEncoding = None /\ ~r.truncated
       ELSE IF ct # <<>> /\ (ct[1] \in {"application/json", "text/"})
         THEN r.rawBodyEncoding = Some("utf8")
       ELSE r.rawBodyEncoding = Some("base64")

\* C20: under any interleaving of concurrent multipart captures, files of two
\* different requests are never written to the same disk path, also when both
\* upload parts with the same declared filename: every file a request writes,
\* and every path its descriptors and file rows record, lies in the
\* subdirectory named by its own request id, and the write leaves the files
\* of the other requests as they were.
InOwnDirectory(path, id) ==
  Len(path) > 2 /\ path[1] = "uploads" /\ path[2] = id

C20_PathsInOwnDirectory ==
  [][/\ \A id \in ReqIds, part \in StoreParts :
          ReadPart(id, part) =>
            /\ \A d \in disk' \ disk : InOwnDirectory(d.path, id)
            /\ \A d \in disk \ disk' : InOwnDirectory(d.path, id)
            /\ \A i \in 1..Len(cap'[id].upl) :
                 InOwnDirectory(cap'[id].upl[i].diskPath, id)
     /\ \A f \in files' : InOwnDirectory(f.diskPath, f.requestId)
    ]_vars

\* two requests have each written a part that declared the filename a.txt
C20_Witness ==
  /\ \E d \in disk : d.path = <<"uploads", 1, "a.txt">>
  /\ \E d \in disk : d.path = <<"uploads", 2, "a.txt">>
  /\ cap[1].pc = "parts"
  /\ cap[2].pc = "parts"

C22_DeletedAtIsSetOnce ==
  [][\A r \in requests :
       r.deletedAt # None =>
         \E r2 \in requests' : r2.id = r.id /\ r2.deletedAt = r.deletedAt
    ]_vars

\* C23: in every GET /admin/requests response, also when captures and
\* soft-deletes run concurrently with the listing, the number of returned
\* requests is at most total minus offset (none when offset exceeds total)
\* and at most total, so hasMore = false implies the page reaches the last
\* matching row.
C23_PageWithinTotal ==
  (reply.op = "list" /\ reply.status = 200) =>
    /\ Len(reply.out.ids) <= reply.out.total
    /\ Len(reply.out.ids) <=
         (IF reply.out.total > reply.out.offset
            THEN reply.out.total - reply.out.offset ELSE 0)

\* the captures that were answered 200: the handler has ended, its request
\* row is stored and, when it stored files, so are its file rows
Captured200 ==
  {id \in ReqIds :
     /\ cap[id].pc = "done"
     /\ \E r \in requests : r.id = id /\ (r.hasFiles => FileRowsOf(id) # {})}
SumOver(f, S) ==
  LET RECURSIVE Sum(_)
      Sum(T) == IF T = {} THEN 0
                ELSE LET x == CHOOSE y \in T : TRUE IN f[x] + Sum(T \ {x})
  IN Sum(S)
CountersAgree ==
  /\ metrics.totalCaptured = Cardinality(Captured200)
  /\ metrics.totalCaptured = SumOver(metrics.byMethod, DOMAIN metrics.byMethod)
  /\ metrics.totalCaptured = SumOver(metrics.byStatus, DOMAIN metrics.byStatus)
  /\ metrics.filesStored = Cardinality({f \in files : f.requestId \in Captured200})
Captured200Step ==
  reply = NoReply /\ reply'.op = "capture" /\ reply'.status = 200

\* C24: after any sequence of requests totalCaptured equals the number of
\* captures answered 200, the sum of the byMethod counts and the sum of the
\* byStatus counts, and filesStored equals the number of file rows those
\* captures inserted; a step that is not the 200 answer of a capture (a
\* capture answered 500 or 404, an admin or operational request) leaves
\* every counter unchanged.
C24_CountersMatchCaptures ==
  /\ []CountersAgree
  /\ [][~Captured200Step => metrics' = metrics]_vars

\* two captures of different methods were answered 200, one of them stored
\* two files, and a capture answered 404 has just left the counters alone
C24_Witness ==
  /\ metrics.totalCaptured = 2
  /\ metrics.filesStored = 2
  /\ metrics.byMethod["GET"] = 1
  /\ metrics.byMethod["POST"] = 1
  /\ reply.op = "metrics"

\* a capture answered 500 after its request row was stored, with one capture
\* counted
C24_FailedNotCounted ==
  /\ reply.op = "capture" /\ reply.status = 500 /\ reply.out.failed = "files"
  /\ metrics.totalCaptured = 1

====
